---- MODULE Spec2Model ----
(***************************************************************************)
(* A model of desmod's tracing layer (src/desmod/tracer.py): the Tracer    *)
(* base class, LogTracer, VCDTracer and TraceManager.                      *)
(*                                                                         *)
(* Scopes are sequences of one-character strings.  A regular expression is *)
(* a sequence of atoms (a literal character or the wildcard '.', each      *)
(* optionally starred), matched the way re.match does: anchored at the     *)
(* start of the scope, free at its end.                                    *)
(*                                                                         *)
(* An optional value (a configuration key that may be absent, an attribute *)
(* that may not have been assigned, a hint that may be missing) is a       *)
(* sequence of length 0 or 1.                                              *)
(***************************************************************************)
EXTENDS Integers, Sequences, FiniteSets, TLC

VARIABLES cfg, now, tm, tr, sink, out, signals, changes, held, last, hist

vars == <<cfg, now, tm, tr, sink, out, signals, changes, held, last, hist>>

---------------------------------------------------------------------------
(* Bounds of the model *)

MaxTime == 1
MaxOut == 2
MaxSignals == 1
MaxChanges == 2
MaxProbes == 2

---------------------------------------------------------------------------
(* Optional values *)

None == <<>>
Some(v) == <<v>>
IsSet(o) == Len(o) > 0
Val(o) == o[1]
Get(o, default) == IF IsSet(o) THEN Val(o) ELSE default

---------------------------------------------------------------------------
(* Scopes and regular expressions *)

Lit(c) == [c |-> c, star |-> FALSE]
AnyChar == [c |-> "ANY", star |-> FALSE]
AnyStar == [c |-> "ANY", star |-> TRUE]

ScopeAB == <<"a", ".", "b">>
ScopeAC == <<"a", ".", "c">>
ScopeB == <<"b">>
Scopes == {ScopeAB, ScopeAC, ScopeB}

PatAll == <<AnyStar>>
PatA == <<Lit("a")>>
PatADotB == <<Lit("a"), AnyChar, Lit("b")>>
PatBAll == <<Lit("b"), AnyStar>>
PatAStarDot == <<[c |-> "a", star |-> TRUE], AnyChar>>

(* '(' : a group that is never closed, which re.compile refuses *)
PatBad == <<Lit("(")>>
Malformed(p) == \E i \in 1..Len(p) : p[i].c = "("
AnyMalformed(pats) == \E i \in 1..Len(pats) : Malformed(pats[i])

AtomOk(a, ch) == a.c = "ANY" \/ a.c = ch

RECURSIVE re_match(_, _)
re_match(p, s) ==
    IF p = <<>> THEN TRUE
    ELSE LET a == Head(p) IN
         IF a.star
         THEN \/ (s # <<>> /\ AtomOk(a, Head(s)) /\ re_match(p, Tail(s)))
              \/ re_match(Tail(p), s)
         ELSE s # <<>> /\ AtomOk(a, Head(s)) /\ re_match(Tail(p), Tail(s))

AnyMatch(res, scope) == \E i \in 1..Len(res) : re_match(res[i], scope)

---------------------------------------------------------------------------
(* Configuration *)

TracerNames == {"log", "vcd"}
LevelNames == {"ERROR", "WARNING", "INFO", "PROBE", "DEBUG"}

levels == [l \in LevelNames |->
             CASE l = "ERROR" -> 1
               [] l = "WARNING" -> 2
               [] l = "INFO" -> 3
               [] l = "PROBE" -> 4
               [] l = "DEBUG" -> 5]

DefaultPats == [include_pat |-> None, exclude_pat |-> None]

PatCfgs == { DefaultPats,
             [include_pat |-> Some(<<PatA>>), exclude_pat |-> None],
             [include_pat |-> None, exclude_pat |-> Some(<<PatADotB>>)],
             [include_pat |-> Some(<<PatBAll, PatAStarDot>>),
              exclude_pat |-> Some(<<PatADotB>>)],
             [include_pat |-> Some(<<>>), exclude_pat |-> Some(<<>>)] }

FewPatCfgs == { DefaultPats,
                [include_pat |-> Some(<<PatA>>),
                 exclude_pat |-> Some(<<PatADotB>>)] }

OptLevels == {None} \cup {Some(x) : x \in LevelNames}
OptFiles == {None, Some("logfile")}

(* sim.<name>.enable may be absent: config.get(..., False) *)
OptBools == {None, Some(FALSE), Some(TRUE)}

LogCfg(e, p, l, f) == [enable |-> e, pats |-> p, level |-> l, file |-> f]
VcdCfg(e, p) == [enable |-> e, pats |-> p]

RejectAB == [include_pat |-> Some(<<PatA>>), exclude_pat |-> Some(<<PatADotB>>)]
OnlyA == [include_pat |-> Some(<<PatA>>), exclude_pat |-> None]

VcdOff == VcdCfg(None, DefaultPats)

(* sim.gtkw.live: whether open() spawns the waveform viewer *)
GtkwOff == [live |-> FALSE]
GtkwLive == [live |-> TRUE]
LogOff == LogCfg(Some(FALSE), DefaultPats, None, Some("logfile"))

(* the configurations of the scope-filter runs: every pattern set *)
ScopeConfigs ==
    [log : {LogCfg(e, p, None, None) : e \in OptBools, p \in PatCfgs},
     vcd : {VcdCfg(e, p) : e \in {Some(FALSE), Some(TRUE)}, p \in FewPatCfgs},
     gtkw : {GtkwOff}]

(* the configurations of the log runs: every maximum level *)
LogConfigs ==
    [log : {LogOff} \cup
           {LogCfg(Some(TRUE), p, l, None) :
               p \in {DefaultPats, RejectAB, OnlyA}, l \in OptLevels},
     vcd : {VcdOff},
     gtkw : {GtkwOff}]

(* the configurations of the life-cycle runs *)
Configs ==
    [log : {LogOff} \cup
           {LogCfg(Some(TRUE), p, l, f) :
               p \in FewPatCfgs, l \in {None, Some("DEBUG")}, f \in OptFiles},
     vcd : {VcdOff} \cup {VcdCfg(Some(TRUE), p) : p \in FewPatCfgs},
     gtkw : {GtkwOff}]

---------------------------------------------------------------------------
(* Program state.  An operation is a function from worlds to worlds: a     *)
(* world holds the objects' fields, the sinks, what was written, the       *)
(* events of the operation in progress (ev) and the exception in flight    *)
(* (exc, "none" when there is none).                                       *)

SinkNames == {"logfile", "dumpfile", "writer"}
FileSinks == {"dumpfile", "logfile"}

NewTracer == [enabled |-> FALSE, include_re |-> None, exclude_re |-> None,
              stack |-> <<>>, max_level |-> None, ts_unit |-> None,
              file |-> None, vcd |-> None, built |-> FALSE]

(* env.timescale, and the unit text of lines 73-77: the unit alone for a   *)
(* magnitude of 1, else '(<magnitude><unit>)' *)
timescale == <<"1", "us">>
FormatUnit(ts) ==
    IF ts[1] = "1" THEN <<ts[2]>> ELSE <<"(", ts[1], ts[2], ")">>

World == [tm |-> tm, tr |-> tr, sink |-> sink, out |-> out, signals |-> signals,
          changes |-> changes, hist |-> hist, ev |-> <<>>, exc |-> "none"]

Event(W, e) == [W EXCEPT !.ev = Append(@, e)]
Raise(W, e) == [W EXCEPT !.exc = e]

(* open(name, 'w') followed by exit_stack.enter_context *)
OpenSink(W, t, s) ==
    [W EXCEPT !.sink[s] = [state |-> "open", closes |-> @.closes],
              !.tr[t].stack = Append(@, s),
              !.ev = Append(@, <<"open", s>>)]

(* the sink's own __exit__, as the tracer's ExitStack calls it *)
CloseSink(W, s) ==
    [W EXCEPT !.sink[s] = [state |-> "closed", closes |-> @.closes + 1],
              !.ev = Append(@, <<"close", s>>)]

(* What the environment can refuse during construction: creating the log  *)
(* file, creating the dump file, building the VCDWriter, spawning the      *)
(* viewer.  An open() is given the one fault of the run, "none" for none.  *)
NoFault == {"none"}
Faults == {"none", "log_file", "dump_file", "writer", "spawn"}

LogTracer_open(W, fault) ==
    LET W1 == [W EXCEPT !.tr["log"].max_level =
                            Some(levels[Get(cfg.log.level, "INFO")]),
                        !.tr["log"].ts_unit = Some(FormatUnit(timescale)),
                        !.hist.opened["log"] = @ + 1]
    IN IF IsSet(cfg.log.file)
       THEN IF fault = "log_file" THEN Raise(W1, "IOError")
            ELSE [OpenSink(W1, "log", "logfile") EXCEPT
                     !.tr["log"].file = Some("logfile")]
       ELSE [W1 EXCEPT !.tr["log"].file = Some("stderr")]

(* the dump file enters the exit stack before VCDWriter is called, and the *)
(* writer before the viewer is spawned *)
VCDTracer_open(W, fault) ==
    LET W1 == [W EXCEPT !.hist.opened["vcd"] = @ + 1]
        W2 == OpenSink(W1, "vcd", "dumpfile")
        W3 == [OpenSink(W2, "vcd", "writer") EXCEPT
                  !.tr["vcd"].vcd = Some("writer")]
    IN IF fault = "dump_file" THEN Raise(W1, "IOError")
       ELSE IF fault = "writer" THEN Raise(W2, "ValueError")
       ELSE IF ~cfg.gtkw.live THEN W3
       ELSE IF fault = "spawn" THEN Raise(W3, "OSError")
       ELSE Event(W3, <<"spawn", "gtkwave">>)

Tracer_open(W, t, fault) ==
    IF t = "log" THEN LogTracer_open(W, fault) ELSE VCDTracer_open(W, fault)

(* lines 28-31: the two lists are compiled in turn, and a pattern that    *)
(* does not compile raises before its list is assigned *)
CompilePatterns(W, t) ==
    LET include_pat == Get(cfg[t].pats.include_pat, <<PatAll>>)
        exclude_pat == Get(cfg[t].pats.exclude_pat, <<>>)
    IN IF AnyMalformed(include_pat) THEN Raise(W, "re.error")
       ELSE LET W1 == [W EXCEPT !.tr[t].include_re = Some(include_pat)]
            IN IF AnyMalformed(exclude_pat) THEN Raise(W1, "re.error")
               ELSE [W1 EXCEPT !.tr[t].exclude_re = Some(exclude_pat)]

(* __init__ that opens before it looks at self.enabled *)
Tracer_init_AlwaysOpen(W, t, fault) ==
    LET enabled == Get(cfg[t].enable, FALSE)
        W1 == [W EXCEPT !.tr[t] = [NewTracer EXCEPT !.enabled = enabled,
                                                    !.built = TRUE]]
        W2 == Tracer_open(W1, t, fault)
    IN IF W2.exc # "none" THEN W2
       ELSE IF enabled THEN CompilePatterns(W2, t)
       ELSE W2

Tracer_init(W, t, fault) ==
    LET enabled == Get(cfg[t].enable, FALSE)
        W1 == [W EXCEPT !.tr[t] = [NewTracer EXCEPT !.enabled = enabled,
                                                    !.built = TRUE]]
    IN IF enabled
       THEN LET W2 == Tracer_open(W1, t, fault)
            IN IF W2.exc # "none" THEN W2 ELSE CompilePatterns(W2, t)
       ELSE W1

(* ExitStack.close() that lets the sinks leave in the order they entered *)
RECURSIVE ExitStack_close_Fifo(_, _)
ExitStack_close_Fifo(W, t) ==
    LET st == W.tr[t].stack IN
    IF st = <<>> THEN W
    ELSE ExitStack_close_Fifo(
             CloseSink([W EXCEPT !.tr[t].stack = Tail(st)], Head(st)), t)

(* ExitStack.close(): the registered sinks leave in reverse order, and the *)
(* stack is empty afterwards *)
RECURSIVE ExitStack_close(_, _)
ExitStack_close(W, t) ==
    LET st == W.tr[t].stack IN
    IF st = <<>> THEN W
    ELSE ExitStack_close(
             CloseSink([W EXCEPT !.tr[t].stack = SubSeq(st, 1, Len(st) - 1)],
                       st[Len(st)]), t)

(* close() that closes the sinks and leaves them on the stack *)
Tracer_close_KeepStack(W, t) ==
    [ExitStack_close([W EXCEPT !.hist.closed[t] = TRUE], t)
        EXCEPT !.tr[t].stack = W.tr[t].stack]

Tracer_close(W, t) ==
    ExitStack_close([W EXCEPT !.hist.closed[t] = TRUE], t)

---------------------------------------------------------------------------
(* Scope and level filtering.  A result is [val, exc]: the value returned, *)
(* or the exception raised.                                                *)

Ret(v) == [val |-> v, exc |-> "none"]
Exc(e) == [val |-> FALSE, exc |-> e]

(* is_scope_enabled without its exclude list *)
Tracer_is_scope_enabled_NoExclude(T, scope) ==
    IF ~T.enabled THEN Ret(FALSE)
    ELSE IF ~IsSet(T.include_re) THEN Exc("AttributeError")
         ELSE Ret(AnyMatch(Val(T.include_re), scope))

(* Tracer.is_scope_enabled: "and" stops at a false self.enabled, before    *)
(* the attributes that only an enabled tracer has are read *)
Tracer_is_scope_enabled(T, scope) ==
    IF ~T.enabled THEN Ret(FALSE)
    ELSE IF ~IsSet(T.include_re) \/ ~IsSet(T.exclude_re)
         THEN Exc("AttributeError")
         ELSE Ret(AnyMatch(Val(T.include_re), scope)
                  /\ ~AnyMatch(Val(T.exclude_re), scope))

(* the level test with < for <= *)
LevelAllowed_Strict(level, max_level) == levels[level] < max_level

LevelAllowed(level, max_level) == levels[level] <= max_level

(* LogTracer.is_scope_enabled(scope, level): level is an optional name *)
LogTracer_is_scope_enabled(T, scope, level) ==
    IF ~IsSet(level) THEN Tracer_is_scope_enabled(T, scope)
    ELSE IF ~IsSet(T.max_level) THEN Exc("AttributeError")
    ELSE IF LevelAllowed(Val(level), Val(T.max_level))
         THEN Tracer_is_scope_enabled(T, scope)
         ELSE Ret(FALSE)

(* is_scope_enabled(scope) as auto_probe calls it on either tracer *)
is_scope_enabled(W, t, scope) ==
    IF t = "log" THEN LogTracer_is_scope_enabled(W.tr[t], scope, None)
    ELSE Tracer_is_scope_enabled(W.tr[t], scope)

---------------------------------------------------------------------------
(* Values, targets, hints and the closures the tracers return *)

IntV(n) == [kind |-> "int", v |-> n]
FloatV(n) == [kind |-> "float", v |-> n]
StrZ == [kind |-> "str", v |-> 0]

Targets == { [shape |-> "Container", level |-> IntV(3), n |-> 0],
             [shape |-> "Container", level |-> FloatV(2), n |-> 0],
             [shape |-> "Resource", level |-> IntV(0), n |-> 0],
             [shape |-> "Resource", level |-> IntV(0), n |-> 2],
             [shape |-> "Store", level |-> IntV(0), n |-> 1],
             [shape |-> "Other", level |-> IntV(0), n |-> 0] }

ContainerInt == [shape |-> "Container", level |-> IntV(3), n |-> 0]
OtherTarget == [shape |-> "Other", level |-> IntV(0), n |-> 0]

NoLogHints == [level |-> None, value_fmt |-> None]
NoVcdHints == [var_type |-> None, init |-> None]

LogHints == { [level |-> l, value_fmt |-> f] :
                l \in OptLevels, f \in {None, Some("v={value}")} }

VcdHints == { [var_type |-> vt, init |-> i] :
                vt \in {None, Some("real"), Some("event"), Some("wire")},
                i \in {None, Some(IntV(7))} }

Hints == [log : {None} \cup {Some(h) : h \in LogHints},
          vcd : {None} \cup {Some(h) : h \in VcdHints}]

(* the hint bags of the life-cycle runs *)
FewHints ==
    [log : {None, Some(NoLogHints)},
     vcd : {None, Some(NoVcdHints)}]

(* the hint bags of the log runs: every level, no vcd entry *)
LevelHints ==
    [log : {None} \cup {Some([level |-> l, value_fmt |-> None]) :
                          l \in OptLevels},
     vcd : {None}]

NoOp == [kind |-> "noop", scope |-> <<>>, level |-> "", unit |-> <<>>,
         fmt |-> "", var |-> 0]

---------------------------------------------------------------------------
(* LogTracer *)

(* print(..., file=self.file): a closed file refuses the write *)
LogWrite(W, rec) ==
    IF ~IsSet(W.tr["log"].file) THEN Raise(W, "AttributeError")
    ELSE IF W.tr["log"].file = Some("logfile") /\ W.sink["logfile"].state # "open"
    THEN Raise(W, "ValueError")
    ELSE [W EXCEPT !.out = Append(@, [rec EXCEPT !.dest = Val(W.tr["log"].file)]),
                   !.ev = Append(@, <<"write", rec.level>>)]

(* a line stamped with the time the run began *)
LogRecord_FrozenTime(level, ts_unit, scope, message) ==
    [dest |-> "", level |-> level, ts |-> 0, ts_unit |-> ts_unit,
     scope |-> scope, message |-> message]

(* a line of the default format: level, ts, ts_unit, scope, message *)
LogRecord(level, ts_unit, scope, message) ==
    [dest |-> "", level |-> level, ts |-> now, ts_unit |-> ts_unit,
     scope |-> scope, message |-> message]

(* get_log_function(scope, level): [W, ret], ret the callable returned *)
LogTracer_get_log_function(W, scope, level) ==
    LET r == LogTracer_is_scope_enabled(W.tr["log"], scope, Some(level)) IN
    IF r.exc # "none" THEN [W |-> Raise(W, r.exc), ret |-> None]
    ELSE IF r.val
         THEN [W |-> W,
               ret |-> Some([kind |-> "log_function", scope |-> scope,
                             level |-> level,
                             unit |-> Val(W.tr["log"].ts_unit),
                             fmt |-> "", var |-> 0])]
         ELSE [W |-> W, ret |-> Some(NoOp)]

LogTracer_activate_probe(W, scope, target, hints) ==
    LET log_hints == Get(hints.log, NoLogHints)
        level == Get(log_hints.level, "PROBE")
        r == LogTracer_is_scope_enabled(W.tr["log"], scope, Some(level))
    IN IF r.exc # "none" THEN [W |-> Raise(W, r.exc), ret |-> None]
       ELSE IF ~r.val THEN [W |-> W, ret |-> None]
       ELSE [W |-> W,
             ret |-> Some([kind |-> "log_probe", scope |-> scope,
                           level |-> level,
                           unit |-> Val(W.tr["log"].ts_unit),
                           fmt |-> Get(log_hints.value_fmt, "{value}"),
                           var |-> 0])]

(* LogTracer.__exit__(exc_type, ...): pending is the exception in flight *)
LogTracer_exit(W, pending) ==
    LET W1 == IF pending # "none" /\ W.tr["log"].enabled
              THEN LogWrite(W, LogRecord("ERROR", Val(W.tr["log"].ts_unit),
                                         <<"Exception">>, pending))
              ELSE W
    IN IF W1.exc # "none" THEN W1 ELSE Tracer_close(W1, "log")

---------------------------------------------------------------------------
(* VCDTracer *)

HasDot(scope) == \E i \in 1..Len(scope) : scope[i] = "."
LastDot(scope) ==
    CHOOSE i \in 1..Len(scope) :
        scope[i] = "." /\ \A j \in (i + 1)..Len(scope) : scope[j] # "."

(* scope.rsplit('.', 1) *)
ParentScope(scope) == SubSeq(scope, 1, LastDot(scope) - 1)
LeafName(scope) == SubSeq(scope, LastDot(scope) + 1, Len(scope))

(* the var_type of lines 154-165: explicit, else inferred, else None *)
ResolveVarType(target, vcd_hints) ==
    IF IsSet(vcd_hints.var_type) THEN vcd_hints.var_type
    ELSE IF target.shape = "Container"
         THEN IF target.level.kind = "float" THEN Some("real")
              ELSE Some("integer")
    ELSE IF target.shape \in {"Resource", "Store"} THEN Some("integer")
    ELSE None

(* the init read off the target even when the hint gives one *)
ResolveInit_NoHint(target, vcd_hints) ==
    IF target.shape = "Container" THEN Some(target.level)
    ELSE IF target.shape = "Resource"
         THEN IF target.n > 0 THEN Some(IntV(target.n)) ELSE Some(StrZ)
    ELSE IF target.shape = "Store" THEN Some(IntV(target.n))
    ELSE None

(* the init of lines 167-187: the hint, else read off the target *)
ResolveInit(target, vcd_hints) ==
    IF IsSet(vcd_hints.init) THEN vcd_hints.init
    ELSE IF target.shape = "Container" THEN Some(target.level)
    ELSE IF target.shape = "Resource"
         THEN IF target.n > 0 THEN Some(IntV(target.n)) ELSE Some(StrZ)
    ELSE IF target.shape = "Store" THEN Some(IntV(target.n))
    ELSE None

(* register_meth(parent_scope, name, **kwargs) on the VCDWriter: a closed  *)
(* writer and a name already taken in the scope are refused *)
VCDWriter_register(W, parent, name, var_type, init) ==
    IF W.sink["writer"].state # "open"
    THEN [W |-> Raise(W, "VCDPhaseError"), ret |-> None]
    ELSE IF \E i \in 1..Len(W.signals) :
               W.signals[i].parent = parent /\ W.signals[i].name = name
    THEN [W |-> Raise(W, "KeyError"), ret |-> None]
    ELSE [W |-> [W EXCEPT !.signals =
                     Append(@, [parent |-> parent, name |-> name,
                                var_type |-> var_type, init |-> init]),
                          !.ev = Append(@, <<"register", "var">>)],
          ret |-> Some([kind |-> "vcd_probe", scope |-> parent \o <<".">> \o name,
                        level |-> "", unit |-> <<>>, fmt |-> "",
                        var |-> Len(W.signals) + 1])]

(* activate_probe that registers a signal of unknown kind before it gives  *)
(* up on a target it cannot infer a kind for *)
VCDTracer_activate_probe_RegisterFirst(W, scope, target, hints) ==
    LET vcd_hints == Get(hints.vcd, NoVcdHints)
        var_type == ResolveVarType(target, vcd_hints)
    IN IF ~W.tr["vcd"].enabled
       THEN [W |-> Raise(W, "AssertionError"), ret |-> None]
       ELSE IF ~IsSet(var_type)
       THEN [W |-> Raise(VCDWriter_register(W, <<>>, scope, "unknown",
                                            None).W, "ValueError"),
             ret |-> None]
       ELSE IF Val(var_type) \notin {"integer", "real", "event"}
       THEN [W |-> Raise(W, "AttributeError"), ret |-> None]
       ELSE IF ~HasDot(scope)
       THEN [W |-> Raise(W, "ValueError"), ret |-> None]
       ELSE VCDWriter_register(W, ParentScope(scope), LeafName(scope),
                               Val(var_type), ResolveInit(target, vcd_hints))

VCDTracer_activate_probe(W, scope, target, hints) ==
    LET vcd_hints == Get(hints.vcd, NoVcdHints)
        var_type == ResolveVarType(target, vcd_hints)
    IN IF ~W.tr["vcd"].enabled
       THEN [W |-> Raise(W, "AssertionError"), ret |-> None]
       ELSE IF ~IsSet(var_type)
       THEN [W |-> Raise(W, "ValueError"), ret |-> None]
       ELSE IF Val(var_type) \notin {"integer", "real", "event"}
       THEN [W |-> Raise(W, "AttributeError"), ret |-> None]
       ELSE IF ~HasDot(scope)
       THEN [W |-> Raise(W, "ValueError"), ret |-> None]
       ELSE VCDWriter_register(W, ParentScope(scope), LeafName(scope),
                               Val(var_type), ResolveInit(target, vcd_hints))

activate_probe(W, t, scope, target, hints) ==
    IF t = "log" THEN LogTracer_activate_probe(W, scope, target, hints)
    ELSE VCDTracer_activate_probe(W, scope, target, hints)

---------------------------------------------------------------------------
(* TraceManager *)

tracers == <<"log", "vcd">>

(* a tracer whose __init__ raises is never entered on the manager's exit  *)
(* stack, and the manager itself is never handed to the caller *)
TraceManager_init(W, fault) ==
    LET W1 == Tracer_init(W, "log", fault)
        W2 == [W1 EXCEPT !.tm.stack = Append(@, "log")]
        W3 == Tracer_init(W2, "vcd", fault)
    IN IF W1.exc # "none" THEN [W1 EXCEPT !.tm.state = "failed"]
       ELSE IF W3.exc # "none" THEN [W3 EXCEPT !.tm.state = "failed"]
       ELSE [W3 EXCEPT !.tm.stack = Append(@, "vcd"), !.tm.state = "active"]

(* Tracer.__exit__ of tracer t with the exception in flight; the     *)
(* world returned has exc set when the __exit__ itself raised *)
Tracer_exit(W, t, pending) ==
    IF t = "log" THEN LogTracer_exit(W, pending) ELSE Tracer_close(W, t)

(* ExitStack.__exit__: the entered tracers leave in reverse order; none    *)
(* returns true, so nothing is suppressed, and an exception raised by an   *)
(* __exit__ replaces the one in flight *)
RECURSIVE ExitStack_exit(_, _)
ExitStack_exit(W, pending) ==
    LET st == W.tm.stack IN
    IF st = <<>> THEN Raise(W, pending)
    ELSE LET W1 == Tracer_exit(
                      [W EXCEPT !.tm.stack = SubSeq(st, 1, Len(st) - 1),
                                !.ev = Append(@, <<"exit", st[Len(st)]>>)],
                      st[Len(st)], pending)
         IN ExitStack_exit(Raise(W1, "none"),
                           IF W1.exc # "none" THEN W1.exc ELSE pending)

TraceManager_exit(W, exc) ==
    ExitStack_exit([W EXCEPT !.tm.state = "exited"], exc)

(* the test of line 215 without the scope filter *)
Qualifies_HintOnly(W, t, scope, hints) == Ret(IsSet(hints[t]))

(* the test of line 215 without the look at the hint bag *)
Qualifies_AnyHints(W, t, scope, hints) == is_scope_enabled(W, t, scope)

(* line 215: tracer.name in hints and tracer.is_scope_enabled(scope) *)
Qualifies(W, t, scope, hints) ==
    IF IsSet(hints[t]) THEN is_scope_enabled(W, t, scope) ELSE Ret(FALSE)

(* the loop of auto_probe from tracer i on: R is [W, acts, cbs] *)
RECURSIVE AutoProbeLoop(_, _, _, _, _)
AutoProbeLoop(R, i, scope, target, hints) ==
    IF i > Len(tracers) \/ R.W.exc # "none" THEN R
    ELSE LET t == tracers[i]
             en == Qualifies(R.W, t, scope, hints)
         IN IF en.exc # "none"
            THEN [R EXCEPT !.W = Raise(R.W, en.exc)]
            ELSE IF ~en.val
            THEN AutoProbeLoop(R, i + 1, scope, target, hints)
            ELSE LET a == activate_probe(Event(R.W, <<"activate", t>>),
                                         t, scope, target, hints)
                 IN AutoProbeLoop(
                        [W |-> [a.W EXCEPT !.hist.cold[t] =
                                              @ \/ ~R.W.tr[t].enabled],
                         acts |-> [R.acts EXCEPT ![t] = @ + 1],
                         cbs |-> R.cbs \o a.ret],
                        i + 1, scope, target, hints)

(* auto_probe that attaches whatever it collected, an empty list too *)
TraceManager_auto_probe_AlwaysAttach(W, scope, target, hints) ==
    LET R == AutoProbeLoop([W |-> W, acts |-> [t \in TracerNames |-> 0],
                            cbs |-> <<>>], 1, scope, target, hints)
    IN IF R.W.exc = "none"
       THEN [W |-> Event(R.W, <<"attach", "probe">>), acts |-> R.acts,
             cbs |-> R.cbs, attached |-> <<R.cbs>>]
       ELSE [W |-> R.W, acts |-> R.acts, cbs |-> R.cbs, attached |-> <<>>]

(* auto_probe(scope, target, hints): [W, acts, cbs, attached] *)
TraceManager_auto_probe(W, scope, target, hints) ==
    LET R == AutoProbeLoop([W |-> W, acts |-> [t \in TracerNames |-> 0],
                            cbs |-> <<>>], 1, scope, target, hints)
    IN IF R.W.exc = "none" /\ R.cbs # <<>>
       THEN [W |-> Event(R.W, <<"attach", "probe">>), acts |-> R.acts,
             cbs |-> R.cbs, attached |-> <<R.cbs>>]
       ELSE [W |-> R.W, acts |-> R.acts, cbs |-> R.cbs, attached |-> <<>>]

---------------------------------------------------------------------------
(* Calling what the tracers returned *)

(* change() that records against the first registered signal *)
VCDWriter_change_FirstVar(W, var, value) ==
    IF W.sink["writer"].state # "open" THEN Raise(W, "VCDPhaseError")
    ELSE [W EXCEPT !.changes = Append(@, [var |-> 1, ts |-> now,
                                          value |-> value]),
                   !.ev = Append(@, <<"change", "var">>)]

(* self.vcd.change(var, self.env.now, value) *)
VCDWriter_change(W, var, value) ==
    IF W.sink["writer"].state # "open" THEN Raise(W, "VCDPhaseError")
    ELSE [W EXCEPT !.changes = Append(@, [var |-> var, ts |-> now,
                                          value |-> value]),
                   !.ev = Append(@, <<"change", "var">>)]

(* one call f(value) of a closure f *)
Call(W, f, value) ==
    CASE f.kind = "noop" -> W
      [] f.kind = "log_function" ->
           LogWrite(W, LogRecord(f.level, f.unit, f.scope, <<"msg", value>>))
      [] f.kind = "log_probe" ->
           LogWrite(W, LogRecord(f.level, f.unit, f.scope, <<f.fmt, value>>))
      [] f.kind = "vcd_probe" -> VCDWriter_change(W, f.var, value)

(* the callbacks of a bundle, called in order until one raises *)
RECURSIVE CallAll(_, _, _)
CallAll(W, fs, value) ==
    IF fs = <<>> \/ W.exc # "none" THEN W
    ELSE CallAll(Call(W, Head(fs), value), Tail(fs), value)

---------------------------------------------------------------------------
(* The state machine.  An action draws its inputs from the sets it is      *)
(* given; `last` records the operation that led to the state (its inputs,  *)
(* what it returned or raised, the events it caused) and `hist` what has   *)
(* happened since construction.                                            *)

Values == {IntV(5)}
Excs == {"none", "SimError"}

NoLast == [op |-> "none", t |-> "", scope |-> <<>>, level |-> "",
           has |-> [t \in TracerNames |-> FALSE],
           acts |-> [t \in TracerNames |-> 0],
           cbs |-> <<>>, attached |-> <<>>, ret |-> None, val |-> FALSE,
           raised |-> "none", exc_in |-> "none", ev |-> <<>>,
           second |-> FALSE, wrote |-> 0, hinted |-> FALSE, shape |-> "",
           target |-> None, hints |-> None, arg |-> None, fault |-> "none"]

InitWith(C) ==
    /\ cfg \in C
    /\ now = 0
    /\ tm = [state |-> "new", stack |-> <<>>]
    /\ tr = [t \in TracerNames |-> NewTracer]
    /\ sink = [s \in SinkNames |-> [state |-> "none", closes |-> 0]]
    /\ out = <<>>
    /\ signals = <<>>
    /\ changes = <<>>
    /\ held = <<>>
    /\ last = NoLast
    /\ hist = [opened |-> [t \in TracerNames |-> 0],
               closed |-> [t \in TracerNames |-> FALSE],
               cold |-> [t \in TracerNames |-> FALSE],
               exited |-> FALSE]

(* the world W becomes the next state *)
Commit(W) ==
    /\ tm' = W.tm
    /\ tr' = W.tr
    /\ sink' = W.sink
    /\ out' = W.out
    /\ signals' = W.signals
    /\ changes' = W.changes
    /\ hist' = W.hist
    /\ UNCHANGED <<cfg, now>>

Bounded(W) ==
    /\ IF W.out = out THEN TRUE ELSE Len(W.out) <= MaxOut
    /\ IF W.signals = signals THEN TRUE ELSE Len(W.signals) <= MaxSignals
    /\ Len(W.changes) <= MaxChanges

(* TraceManager(env), in an environment that refuses what fault names *)
ConstructWith(FF) ==
    /\ tm.state = "new"
    /\ \E fault \in FF :
         LET W == TraceManager_init(World, fault) IN
         /\ Commit(W)
         /\ held' = <<>>
         /\ last' = [NoLast EXCEPT !.op = "init", !.fault = fault,
                                   !.raised = W.exc, !.ev = W.ev]

Construct == ConstructWith(NoFault)

(* After a failed construction nothing refers to the tracers any more: the *)
(* runtime may finalize the file objects they opened, which closes them,   *)
(* at a time of its choosing.  No exit stack runs, and a VCDWriter that    *)
(* was built is not closed by anything. *)
Finalize ==
    /\ tm.state = "failed"
    /\ \E s \in FileSinks :
         /\ sink[s].state = "open"
         /\ sink' = [sink EXCEPT ![s] = [state |-> "closed",
                                         closes |-> @.closes + 1]]
         /\ last' = [NoLast EXCEPT !.op = "finalize", !.t = s]
         /\ UNCHANGED <<cfg, now, tm, tr, out, signals, changes, held, hist>>

(* the states of a manager the caller holds *)
Constructed == {"active", "exited"}

(* tracer.is_scope_enabled(scope) called by a component *)
IsScopeEnabled(SS) ==
    /\ tm.state \in Constructed
    /\ \E t \in TracerNames, scope \in SS :
         LET r == is_scope_enabled(World, t, scope) IN
         /\ UNCHANGED <<cfg, now, tm, tr, sink, out, signals, changes, hist,
                        held>>
         /\ last' = [NoLast EXCEPT
                       !.op = "is_scope_enabled", !.t = t, !.scope = scope,
                       !.val = r.val, !.raised = r.exc]

AutoProbe(SS, TT, HH) ==
    /\ tm.state \in Constructed
    /\ \E scope \in SS, target \in TT, hints \in HH :
         LET R == TraceManager_auto_probe(World, scope, target, hints) IN
         /\ Bounded(R.W)
         /\ Commit(R.W)
         /\ held' = IF R.attached # <<>> THEN R.attached[1] ELSE <<>>
         /\ last' = [NoLast EXCEPT
                       !.op = "auto_probe", !.scope = scope,
                       !.shape = target.shape,
                       !.has = [t \in TracerNames |-> IsSet(hints[t])],
                       !.acts = R.acts, !.cbs = R.cbs,
                       !.attached = R.attached,
                       !.raised = R.W.exc, !.ev = R.W.ev]

GetLogFunction(SS) ==
    /\ tm.state \in Constructed
    /\ \E scope \in SS, level \in LevelNames :
         LET R == LogTracer_get_log_function(World, scope, level) IN
         /\ Commit(R.W)
         /\ held' = R.ret
         /\ last' = [NoLast EXCEPT
                       !.op = "get_log_function", !.t = "log",
                       !.scope = scope, !.level = level, !.ret = R.ret,
                       !.raised = R.W.exc, !.ev = R.W.ev]

(* tracer.activate_probe(scope, target, hints) called on one tracer *)
ActivateProbe(NN, SS, TT, HH) ==
    /\ tm.state \in Constructed
    /\ \E t \in NN, scope \in SS, target \in TT, hints \in HH :
         LET R == activate_probe(World, t, scope, target, hints) IN
         /\ Bounded(R.W)
         /\ Commit(R.W)
         /\ held' = R.ret
         /\ last' = [NoLast EXCEPT
                       !.op = "activate_probe", !.t = t, !.scope = scope,
                       !.shape = target.shape,
                       !.level = Get(Get(hints.log, NoLogHints).level, "PROBE"),
                       !.hinted = IsSet(Get(hints.log, NoLogHints).level),
                       !.has = [u \in TracerNames |-> IsSet(hints[u])],
                       !.target = Some(target), !.hints = Some(hints),
                       !.ret = R.ret,
                       !.raised = R.W.exc, !.ev = R.W.ev]

(* tracer.activate_probe(scope, target, hints) by a component that keeps   *)
(* the callback returned with the callbacks it already holds *)
ActivateProbeKeep(NN, SS, TT, HH) ==
    /\ tm.state \in Constructed
    /\ \E t \in NN, scope \in SS, target \in TT, hints \in HH :
         LET R == activate_probe(World, t, scope, target, hints) IN
         /\ Len(R.W.signals) <= MaxProbes
         /\ Len(held \o R.ret) <= MaxProbes
         /\ Commit(R.W)
         /\ held' = held \o R.ret
         /\ last' = [NoLast EXCEPT
                       !.op = "activate_probe", !.t = t, !.scope = scope,
                       !.shape = target.shape,
                       !.level = Get(Get(hints.log, NoLogHints).level, "PROBE"),
                       !.hinted = IsSet(Get(hints.log, NoLogHints).level),
                       !.has = [u \in TracerNames |-> IsSet(hints[u])],
                       !.target = Some(target), !.hints = Some(hints),
                       !.ret = R.ret,
                       !.raised = R.W.exc, !.ev = R.W.ev]

(* the callables held are called, in order, with one value *)
Invoke ==
    /\ held # <<>>
    /\ \E value \in Values :
         LET W == CallAll(World, held, value) IN
         /\ Bounded(W)
         /\ Commit(W)
         /\ UNCHANGED held
         /\ last' = [NoLast EXCEPT
                       !.op = "invoke", !.cbs = held,
                       !.wrote = Len(W.out) - Len(out),
                       !.raised = W.exc, !.ev = W.ev]

(* one of the callables held is called with one value *)
InvokeOne ==
    /\ held # <<>>
    /\ \E i \in 1..Len(held), value \in Values :
         LET W == Call(World, held[i], value) IN
         /\ Bounded(W)
         /\ Commit(W)
         /\ UNCHANGED held
         /\ last' = [NoLast EXCEPT
                       !.op = "call", !.cbs = <<held[i]>>,
                       !.arg = Some(value),
                       !.wrote = Len(W.out) - Len(out),
                       !.raised = W.exc, !.ev = W.ev]

(* tracer.close() *)
Close ==
    /\ tm.state \in Constructed
    /\ \E t \in TracerNames :
         LET W == Tracer_close(World, t) IN
         /\ Commit(W)
         /\ UNCHANGED held
         /\ last' = [NoLast EXCEPT
                       !.op = "close", !.t = t, !.second = hist.closed[t],
                       !.raised = W.exc, !.ev = W.ev]

(* the with-block of the TraceManager ends, with or without an exception *)
Exit ==
    /\ tm.state \in Constructed
    /\ \E exc \in Excs :
         LET W0 == TraceManager_exit(World, exc)
             W == [W0 EXCEPT !.hist.exited = TRUE] IN
         /\ Commit(W)
         /\ UNCHANGED held
         /\ last' = [NoLast EXCEPT
                       !.op = "exit", !.exc_in = exc,
                       !.second = hist.exited,
                       !.raised = W.exc, !.ev = W.ev]

(* simulated time advances *)
Tick ==
    /\ now < MaxTime
    /\ now' = now + 1
    /\ last' = [NoLast EXCEPT !.op = "tick"]
    /\ UNCHANGED <<cfg, tm, tr, sink, out, signals, changes, held, hist>>

(* Life cycle: construction, probes, shutdown *)
Init == InitWith(Configs)

(* the scopes and targets the probes of the runs are made with *)
ProbeScopes == {ScopeAB, ScopeAC}
ProbeTargets == {ContainerInt, OtherTarget}
OneScope == {ScopeAB}
OneTarget == {ContainerInt}
LogOnly == {"log"}

Next ==
    \/ Construct
    \/ AutoProbe(ProbeScopes, ProbeTargets, FewHints)
    \/ ActivateProbe(TracerNames, OneScope, OneTarget, FewHints)
    \/ Close
    \/ Exit

Spec == Init /\ [][Next]_vars

(* Scope filter: every pattern set, every scope *)
InitScope == InitWith(ScopeConfigs)

NextScope ==
    \/ Construct
    \/ IsScopeEnabled(Scopes)

SpecScope == InitScope /\ [][NextScope]_vars

(* Log tracer: every maximum level, every message level *)
InitLog == InitWith(LogConfigs)

NextLog ==
    \/ Construct
    \/ GetLogFunction(OneScope)
    \/ ActivateProbe(LogOnly, OneScope, OneTarget, LevelHints)
    \/ Invoke

SpecLog == InitLog /\ [][NextLog]_vars

(* Signal tracer: probes kept and called as simulated time advances *)
VcdConfigs ==
    [log : {LogOff},
     vcd : {VcdCfg(Some(TRUE), DefaultPats), VcdCfg(Some(TRUE), RejectAB)},
     gtkw : {GtkwOff}]

VcdOnly == {"vcd"}
VcdHintBags == [log : {None}, vcd : {None, Some(NoVcdHints)}]

InitVcd == InitWith(VcdConfigs)

NextVcd ==
    \/ Construct
    \/ ActivateProbeKeep(VcdOnly, ProbeScopes, ProbeTargets, VcdHintBags)
    \/ InvokeOne
    \/ Tick

SpecVcd == InitVcd /\ [][NextVcd]_vars

(* Construction: every refusal of the environment, malformed patterns,    *)
(* the viewer configured or not *)
InitPatCfgs == { DefaultPats,
                 [include_pat |-> Some(<<PatBad>>), exclude_pat |-> None],
                 [include_pat |-> None,
                  exclude_pat |-> Some(<<PatA, PatBad>>)] }

InitConfigs ==
    [log : {LogOff} \cup
           {LogCfg(Some(TRUE), p, None, f) :
               p \in InitPatCfgs, f \in OptFiles},
     vcd : {VcdOff} \cup {VcdCfg(Some(TRUE), p) : p \in InitPatCfgs},
     gtkw : {GtkwOff, GtkwLive}]

InitInit == InitWith(InitConfigs)

NextInit ==
    \/ ConstructWith(Faults)
    \/ Finalize

SpecInit == InitInit /\ [][NextInit]_vars

(* Log probes: callbacks kept and called as simulated time advances *)
ProbeConfigs ==
    [log : {LogCfg(Some(TRUE), DefaultPats, Some("DEBUG"), f) : f \in OptFiles},
     vcd : {VcdOff},
     gtkw : {GtkwOff}]

CustomLogHints == [level |-> Some("INFO"), value_fmt |-> Some("v={value}")]
ProbeHintBags == [log : {None, Some(NoLogHints), Some(CustomLogHints)},
                  vcd : {None}]

InitProbe == InitWith(ProbeConfigs)

NextProbe ==
    \/ Construct
    \/ ActivateProbeKeep(LogOnly, OneScope, OneTarget, ProbeHintBags)
    \/ InvokeOne
    \/ Tick

SpecProbe == InitProbe /\ [][NextProbe]_vars

(* Failing activations: a target whose kind cannot be inferred, reached   *)
(* directly and through auto_probe, next to targets that can be probed *)
FailConfigs ==
    [log : {LogOff, LogCfg(Some(TRUE), DefaultPats, Some("DEBUG"), None)},
     vcd : {VcdCfg(Some(TRUE), DefaultPats)},
     gtkw : {GtkwOff}]

InitFail == InitWith(FailConfigs)

NextFail ==
    \/ Construct
    \/ AutoProbe(ProbeScopes, ProbeTargets, FewHints)
    \/ ActivateProbeKeep(VcdOnly, ProbeScopes, ProbeTargets, VcdHintBags)

SpecFail == InitFail /\ [][NextFail]_vars

(* Signal kinds: every target shape under every signal hint entry *)
KindConfigs ==
    [log : {LogOff}, vcd : {VcdCfg(Some(TRUE), DefaultPats)}, gtkw : {GtkwOff}]
KindScopes == {ScopeAB, ScopeB}
KindHintBags == [log : {None}, vcd : {None} \cup {Some(h) : h \in VcdHints}]

InitKind == InitWith(KindConfigs)

NextKind ==
    \/ Construct
    \/ ActivateProbe(VcdOnly, KindScopes, Targets, KindHintBags)

SpecKind == InitKind /\ [][NextKind]_vars

---------------------------------------------------------------------------
(* The statements of the specification, in its own terms: what is          *)
(* configured, which scopes a pattern prefix-matches, the rank of a level  *)

ConfiguredOn(t) == cfg[t].enable = Some(TRUE)

(* the lengths of the prefixes of w that the first i atoms of p match: an *)
(* atom takes one character, a starred atom any number of them *)
MatchedLengths(p, w, i) ==
    LET R[n \in 0..Len(p)] ==
          IF n = 0 THEN {0}
          ELSE IF p[n].star
               THEN {k \in 0..Len(w) :
                       \E j \in R[n - 1] :
                          /\ j <= k
                          /\ \A m \in (j + 1)..k :
                               p[n].c = "ANY" \/ p[n].c = w[m]}
               ELSE {j + 1 : j \in {x \in R[n - 1] :
                                      /\ x < Len(w)
                                      /\ (p[n].c = "ANY" \/ p[n].c = w[x + 1])}}
    IN R[i]

(* p matches some prefix of scope *)
PrefixMatched(p, scope) == MatchedLengths(p, scope, Len(p)) # {}

Included(t, scope) ==
    IF IsSet(cfg[t].pats.include_pat)
    THEN \E i \in 1..Len(Val(cfg[t].pats.include_pat)) :
            PrefixMatched(Val(cfg[t].pats.include_pat)[i], scope)
    ELSE TRUE

Excluded(t, scope) ==
    IF IsSet(cfg[t].pats.exclude_pat)
    THEN \E i \in 1..Len(Val(cfg[t].pats.exclude_pat)) :
            PrefixMatched(Val(cfg[t].pats.exclude_pat)[i], scope)
    ELSE FALSE

ScopeOn(t, scope) ==
    ConfiguredOn(t) /\ Included(t, scope) /\ ~Excluded(t, scope)

RankOrder == <<"ERROR", "WARNING", "INFO", "PROBE", "DEBUG">>
Rank(l) == CHOOSE i \in 1..Len(RankOrder) : RankOrder[i] = l
MaxLevelName == IF IsSet(cfg.log.level) THEN Val(cfg.log.level) ELSE "INFO"

Count(seq, e) == Cardinality({i \in 1..Len(seq) : seq[i] = e})
Pos(seq, e) == CHOOSE i \in 1..Len(seq) : seq[i] = e

---------------------------------------------------------------------------
(* C1: is_scope_enabled(S) is true exactly when the tracer is enabled by   *)
(* configuration, S is prefix-matched by a pattern of the include list and *)
(* by no pattern of the exclude list; an include_pat that is not           *)
(* configured stands for the single match-everything pattern and an        *)
(* exclude_pat that is not configured for the empty list.                  *)
C1_ScopeFilter ==
    /\ last.op = "is_scope_enabled" =>
          /\ last.raised = "none"
          /\ last.val = ScopeOn(last.t, last.scope)
    /\ \A t \in TracerNames :
          tr[t].built /\ tr[t].enabled =>
             /\ ~IsSet(cfg[t].pats.include_pat) =>
                   /\ tr[t].include_re = Some(<<PatAll>>)
                   /\ \A s \in Scopes : PrefixMatched(PatAll, s)
             /\ ~IsSet(cfg[t].pats.exclude_pat) =>
                   tr[t].exclude_re = Some(<<>>)

(* an enabled scope under configured include and exclude patterns *)
C1_Witness ==
    /\ last.op = "is_scope_enabled"
    /\ last.val
    /\ IsSet(cfg[last.t].pats.include_pat)
    /\ IsSet(cfg[last.t].pats.exclude_pat)
    /\ Val(cfg[last.t].pats.exclude_pat) # <<>>
    /\ last.scope = ScopeAC

---------------------------------------------------------------------------
(* C2: in every call of auto_probe each tracer's activate_probe is invoked *)
(* exactly once if the tracer's name is a key of hints and the scope is    *)
(* enabled for the tracer, and not at all otherwise; the tracers are       *)
(* consulted in the order log, vcd.                                        *)
C2_ActivatedExactlyOnce ==
    last.op = "auto_probe" =>
       LET Q(t) == last.has[t] /\ ScopeOn(t, last.scope)
           IsActivate(e) == e[1] = "activate"
           want == SelectSeq(<<"log", "vcd">>, Q)
           got == SelectSeq(last.ev, IsActivate)
       IN /\ \A t \in TracerNames : last.acts[t] = IF Q(t) THEN 1 ELSE 0
          /\ Len(got) = Len(want)
          /\ \A i \in 1..Len(got) : got[i] = <<"activate", want[i]>>

(* a call in which both tracers were activated *)
C2_Witness ==
    /\ last.op = "auto_probe"
    /\ last.acts = [t \in TracerNames |-> 1]
    /\ IsSet(cfg.log.pats.include_pat)

---------------------------------------------------------------------------
(* C3 as stated: auto_probe calls attach exactly once, with the callbacks  *)
(* returned so far, whenever at least one tracer returned a callback, and  *)
(* never when none did.                                                    *)
C3_Original ==
    last.op = "auto_probe" =>
       /\ last.cbs # <<>> => last.attached = <<last.cbs>>
       /\ last.cbs = <<>> => last.attached = <<>>

(* C3, amended: when auto_probe returns, attach was called exactly once    *)
(* with the returned callbacks in tracer order (log before vcd) if at      *)
(* least one was returned, and not at all if none was; when an             *)
(* activate_probe raises, the exception leaves auto_probe and attach is    *)
(* not called, whatever was collected before.  With hints holding only a   *)
(* log entry and a log scope filter that rejects the scope, nothing is     *)
(* collected and nothing attached.                                         *)
C3_AttachOnReturn ==
    last.op = "auto_probe" =>
       /\ Count(last.ev, <<"attach", "probe">>) = Len(last.attached)
       /\ last.raised = "none" /\ last.cbs # <<>> =>
             last.attached = <<last.cbs>>
       /\ last.raised = "none" /\ last.cbs = <<>> => last.attached = <<>>
       /\ last.raised # "none" => last.attached = <<>>
       /\ Len(last.cbs) =
             Cardinality({t \in TracerNames :
                 /\ last.acts[t] = 1
                 /\ \E i \in 1..Len(last.cbs) :
                      last.cbs[i].kind = t \o "_probe"})
       /\ \A i, j \in 1..Len(last.cbs) :
             i < j => last.cbs[i].kind = "log_probe"
                      /\ last.cbs[j].kind = "vcd_probe"
       /\ (last.has["log"] /\ ~last.has["vcd"]
              /\ ~ScopeOn("log", last.scope)) =>
             last.cbs = <<>> /\ last.attached = <<>>

(* a call that attached the callbacks of both tracers *)
C3_Witness ==
    /\ last.op = "auto_probe"
    /\ Len(last.attached) = 1
    /\ Len(last.attached[1]) = 2

---------------------------------------------------------------------------
(* C4: for an enabled log tracer with maximum level L (INFO when none is   *)
(* configured) and a scope that passes the scope filter, for every level   *)
(* M: get_log_function(scope, M) returns a function that writes a line on  *)
(* each call, and activate_probe with the log level hint M returns a       *)
(* callback, exactly when rank(M) <= rank(L); otherwise nothing is written *)
(* and activate_probe returns nothing.                                     *)
Writes(f) == f.kind \in {"log_function", "log_probe"}

C4_LevelFilter ==
    ConfiguredOn("log") /\ tr["log"].built =>
       /\ (last.op = "get_log_function" /\ ScopeOn("log", last.scope)) =>
             /\ last.raised = "none"
             /\ IsSet(last.ret)
             /\ Writes(Val(last.ret)) <=>
                   Rank(last.level) <= Rank(MaxLevelName)
             /\ ~Writes(Val(last.ret)) => Val(last.ret) = NoOp
       /\ (last.op = "activate_probe" /\ last.t = "log" /\ last.hinted
              /\ ScopeOn("log", last.scope)) =>
             /\ last.raised = "none"
             /\ IsSet(last.ret) <=> Rank(last.level) <= Rank(MaxLevelName)
       /\ \A i \in 1..Len(held) :
             Writes(held[i]) =>
                /\ Rank(held[i].level) <= Rank(MaxLevelName)
                /\ ScopeOn("log", held[i].scope)
       /\ last.op = "invoke" =>
             /\ last.raised = "none"
             /\ last.wrote =
                   Cardinality({i \in 1..Len(last.cbs) : Writes(last.cbs[i])})
             /\ last.wrote = Count(last.ev, <<"write", last.cbs[1].level>>)
             /\ last.wrote = 1 =>
                   /\ out[Len(out)].level = last.cbs[1].level
                   /\ out[Len(out)].scope = last.cbs[1].scope

(* a function obtained at the maximum level itself (M = L = PROBE) has     *)
(* been called twice and has written two lines *)
C4_Witness ==
    /\ cfg.log.level = Some("PROBE")
    /\ last.op = "invoke"
    /\ last.wrote = 1
    /\ held[1].kind = "log_function"
    /\ held[1].level = "PROBE"
    /\ Len(out) = 2

---------------------------------------------------------------------------
(* C5: a tracer constructed with enable false is never opened, holds no    *)
(* output sink, and auto_probe never invokes its activate_probe, whatever  *)
(* auto_probe calls and manager exits have happened.                       *)
SinksOf(t) == IF t = "log" THEN {"logfile"} ELSE {"dumpfile", "writer"}

C5_DisabledCostsNothing ==
    \A t \in TracerNames :
       ~ConfiguredOn(t) =>
          /\ hist.opened[t] = 0
          /\ tr[t].stack = <<>>
          /\ tr[t].file = None /\ tr[t].vcd = None
          /\ \A s \in SinksOf(t) : sink[s].state = "none"
          /\ ~hist.cold[t]
          /\ last.op = "auto_probe" => last.acts[t] = 0

(* a disabled log tracer with a log file configured, after an auto_probe   *)
(* with a log entry and the manager's exit *)
C5_Witness ==
    /\ ~ConfiguredOn("log")
    /\ IsSet(cfg.log.file)
    /\ hist.exited
    /\ last.op = "auto_probe"
    /\ last.has["log"]

---------------------------------------------------------------------------
(* C6 as stated: when an exception passes through the manager's exit and   *)
(* the log tracer is enabled, exactly one ERROR record is written, before  *)
(* the log file is closed, and the same exception goes on to the caller;   *)
(* on a normal exit, or with the log tracer disabled, no ERROR record is   *)
(* written.  (The manager's first exit: a later one finds nothing to do.)  *)
C6_Original ==
    (last.op = "exit" /\ ~last.second) =>
       IF last.exc_in # "none" /\ ConfiguredOn("log")
       THEN /\ Count(last.ev, <<"write", "ERROR">>) = 1
            /\ Count(last.ev, <<"close", "logfile">>) > 0 =>
                  Pos(last.ev, <<"write", "ERROR">>)
                     < Pos(last.ev, <<"close", "logfile">>)
            /\ last.raised = last.exc_in
       ELSE Count(last.ev, <<"write", "ERROR">>) = 0

---------------------------------------------------------------------------
(* C7 as stated: after any sequence of operations that ends with an        *)
(* exception passing through the manager's exit, every tracer has released *)
(* its sinks and the exception that reaches the caller is the original.    *)
C7_Original ==
    (last.op = "exit" /\ last.exc_in # "none") =>
       /\ last.raised = last.exc_in
       /\ \A s \in SinkNames : sink[s].state # "open"

---------------------------------------------------------------------------
(* C8: shutdown is idempotent.  close() on a tracer whose close() has run  *)
(* before, and the manager's exit after an earlier exit, raise nothing,    *)
(* close nothing and write nothing; no sink is ever closed twice, and a    *)
(* sink of a closed tracer has been closed exactly once.                   *)
C8_IdempotentShutdown ==
    /\ (last.op = "close" /\ last.second) =>
          last.raised = "none" /\ last.ev = <<>>
    /\ (last.op = "exit" /\ last.second) =>
          last.raised = last.exc_in /\ last.ev = <<>>
    /\ \A s \in SinkNames : sink[s].closes <= 1
    /\ \A t \in TracerNames :
          hist.closed[t] =>
             \A s \in SinksOf(t) :
                sink[s].state # "none" =>
                   sink[s].state = "closed" /\ sink[s].closes = 1

(* the vcd tracer closed again after the manager's exit had closed it *)
C8_Witness ==
    /\ last.op = "close"
    /\ last.second
    /\ last.t = "vcd"
    /\ hist.exited
    /\ sink["writer"].closes = 1
    /\ sink["dumpfile"].closes = 1

---------------------------------------------------------------------------
(* C9 as stated: for every log tracer, enabled or not, get_log_function    *)
(* returns a callable without raising, and when is_scope_enabled(scope,    *)
(* level) is false the callable is a no-op that writes nothing.            *)
C9_Original ==
    /\ last.op = "get_log_function" =>
          /\ last.raised = "none"
          /\ IsSet(last.ret)
          /\ ~(ScopeOn("log", last.scope)
                 /\ Rank(last.level) <= Rank(MaxLevelName)) =>
                Val(last.ret) = NoOp
    /\ (last.op = "invoke" /\ last.cbs = <<NoOp>>) =>
          last.wrote = 0 /\ last.ev = <<>>

---------------------------------------------------------------------------
(* C10 as stated: activate_probe called with a hint bag that has no entry  *)
(* under the backend's own name returns no callback and registers no       *)
(* signal, whether or not the scope is enabled.                            *)
C10_Original ==
    (last.op = "activate_probe" /\ ~last.has[last.t]) =>
       /\ last.ret = None
       /\ Count(last.ev, <<"register", "var">>) = 0

(* C10, amended: a hint bag with no entry under a backend's name makes     *)
(* auto_probe pass that backend over, whether or not the scope is enabled: *)
(* no callback of it is collected and no signal is registered.             *)
(* activate_probe itself does not decline: it reads a missing entry as an  *)
(* empty one (log: level PROBE and format '{value}', a callback exactly    *)
(* when scope and level PROBE are enabled; vcd: the kind is inferred and   *)
(* the signal registered).                                                 *)
C10_OptInAtAutoProbe ==
    /\ last.op = "auto_probe" =>
          \A t \in TracerNames :
             ~last.has[t] =>
                /\ \A i \in 1..Len(last.cbs) :
                      last.cbs[i].kind # t \o "_probe"
                /\ t = "vcd" => Count(last.ev, <<"register", "var">>) = 0
    /\ (last.op = "activate_probe" /\ ~last.has[last.t]
           /\ ConfiguredOn(last.t)) =>
          IF last.t = "log"
          THEN /\ last.raised = "none"
               /\ IsSet(last.ret) <=>
                     (ScopeOn("log", last.scope)
                        /\ Rank("PROBE") <= Rank(MaxLevelName))
               /\ IsSet(last.ret) =>
                     /\ Val(last.ret).level = "PROBE"
                     /\ Val(last.ret).fmt = "{value}"
          ELSE last.raised = "none" =>
                  /\ IsSet(last.ret)
                  /\ Count(last.ev, <<"register", "var">>) = 1

(* auto_probe with a log entry only, on a scope enabled for both tracers:  *)
(* the log callback alone is collected, and no signal is registered *)
C10_Witness ==
    /\ last.op = "auto_probe"
    /\ last.has["log"] /\ ~last.has["vcd"]
    /\ ScopeOn("vcd", last.scope)
    /\ Len(last.cbs) = 1
    /\ signals = <<>>

---------------------------------------------------------------------------
(* the dotted scope a signal was registered under *)
SignalScope(sig) == sig.parent \o <<".">> \o sig.name

UniqueSignals ==
    \A i, j \in 1..Len(signals) :
       (signals[i].parent = signals[j].parent
          /\ signals[i].name = signals[j].name) => i = j

(* C11: on the signal tracer, under any sequence of probe activations and  *)
(* callback calls: no two registered signals share a (parent scope, leaf   *)
(* name) pair; the list of signals only grows, by one record, in a step of *)
(* activate_probe; and every call of a probe callback appends exactly one  *)
(* change (the simulated time of the call, the value) against the signal   *)
(* its own activation registered, and leaves the signals alone.  A         *)
(* container at integer level 3 activated with no hints registers an       *)
(* integer signal with initial value 3.                                    *)
C11_OneSignalOneChange ==
    [][ /\ UniqueSignals'
        /\ signals' # signals =>
              /\ last'.op = "activate_probe"
              /\ signals' = Append(signals, signals'[Len(signals')])
              /\ SignalScope(signals'[Len(signals')]) = last'.scope
              /\ Count(last'.ev, <<"register", "var">>) = 1
        /\ (last'.op = "activate_probe" /\ last'.target = Some(ContainerInt)
              /\ Get(Val(last'.hints).vcd, NoVcdHints) = NoVcdHints
              /\ last'.raised = "none") =>
              /\ signals' # signals
              /\ signals'[Len(signals')].var_type = "integer"
              /\ signals'[Len(signals')].init = Some(IntV(3))
        /\ (last'.op = "call" /\ last'.cbs[1].kind = "vcd_probe") =>
              LET f == last'.cbs[1] IN
              /\ last'.raised = "none"
              /\ f.var \in 1..Len(signals)
              /\ SignalScope(signals[f.var]) = f.scope
              /\ changes' = Append(changes, [var |-> f.var, ts |-> now,
                                             value |-> Val(last'.arg)])
              /\ signals' = signals
      ]_vars

(* two signals are registered, the first for the container at level 3,    *)
(* and the callback of the second has just recorded 5 at time 1 against    *)
(* the second *)
C11_Witness ==
    /\ Len(signals) = 2
    /\ signals[1].var_type = "integer" /\ signals[1].init = Some(IntV(3))
    /\ last.op = "call"
    /\ last.cbs[1].kind = "vcd_probe" /\ last.cbs[1].var = 2
    /\ changes # <<>>
    /\ changes[Len(changes)] = [var |-> 2, ts |-> 1, value |-> IntV(5)]

---------------------------------------------------------------------------
(* A step of the signal tracer's activate_probe on a scope with a parent   *)
(* and a leaf none of the registered signals has.                          *)
VcdActivation ==
    /\ last'.op = "activate_probe" /\ last'.t = "vcd"
    /\ HasDot(last'.scope)
    /\ \A i \in 1..Len(signals) : SignalScope(signals[i]) # last'.scope

VcdHintsOf(l) == Get(Val(l.hints).vcd, NoVcdHints)

(* the kind the specification gives: the var_type hint when present, else  *)
(* real or integer for a container by its level, integer for a resource or *)
(* a store, none for any other shape *)
ClaimedKind(target, vh) ==
    IF IsSet(vh.var_type) THEN vh.var_type
    ELSE CASE target.shape = "Container" ->
                 IF target.level.kind = "float" THEN Some("real")
                 ELSE Some("integer")
           [] target.shape \in {"Resource", "Store"} -> Some("integer")
           [] OTHER -> None

(* C12 as stated: activate_probe registers the signal with the kind given  *)
(* by strict priority (the explicit var_type hint whenever present,        *)
(* whatever the target; else real / integer by the container's level;      *)
(* integer for a resource or a store), and fails with a Value Error,       *)
(* registering nothing, for any other shape without a hint.                *)
C12_Original ==
    [][ VcdActivation =>
          LET k == ClaimedKind(Val(last'.target), VcdHintsOf(last')) IN
          IF IsSet(k)
          THEN /\ last'.raised = "none"
               /\ Len(signals') = Len(signals) + 1
               /\ signals'[Len(signals')].var_type = Val(k)
          ELSE /\ last'.raised = "ValueError"
               /\ signals' = signals
      ]_vars

---------------------------------------------------------------------------
(* the initial value the specification gives: the init hint when present,  *)
(* else the container's level, the store's item count, the resource's user *)
(* count (every resource of the model has a fixed capacity)                *)
ClaimedInit(target, vh) ==
    IF IsSet(vh.init) THEN vh.init
    ELSE CASE target.shape = "Container" -> Some(target.level)
           [] target.shape = "Store" -> Some(IntV(target.n))
           [] target.shape = "Resource" -> Some(IntV(target.n))
           [] OTHER -> None

(* the same with the unknown value 'z' for a resource nobody uses *)
AmendedInit(target, vh) ==
    IF target.shape = "Resource" /\ ~IsSet(vh.init) /\ target.n = 0
    THEN Some(StrZ)
    ELSE ClaimedInit(target, vh)

(* C13 as stated: the signal is registered with the init hint when         *)
(* present, else the container's current level, the store's item count or  *)
(* the resource's user count: a resource with a fixed capacity and no      *)
(* users registers 0.                                                      *)
C13_Original ==
    [][ (VcdActivation /\ last'.raised = "none") =>
          /\ Len(signals') = Len(signals) + 1
          /\ signals'[Len(signals')].init =
                ClaimedInit(Val(last'.target), VcdHintsOf(last'))
      ]_vars

(* C13, amended: the signal is registered with the init hint when present, *)
(* else the container's current level, the store's item count, and for a   *)
(* resource its user count when it has users and the unknown value 'z'     *)
(* when it has none, whatever its capacity.                                *)
C13_InitResolution ==
    [][ (VcdActivation /\ last'.raised = "none") =>
          /\ Len(signals') = Len(signals) + 1
          /\ signals'[Len(signals')].init =
                AmendedInit(Val(last'.target), VcdHintsOf(last'))
      ]_vars

(* a resource without users, activated with no init hint, is registered    *)
(* with 'z' *)
C13_Witness ==
    /\ last.op = "activate_probe" /\ last.t = "vcd" /\ last.raised = "none"
    /\ Val(last.target).shape = "Resource" /\ Val(last.target).n = 0
    /\ ~IsSet(VcdHintsOf(last).init)
    /\ Len(signals) = 1 /\ signals[1].init = Some(StrZ)

---------------------------------------------------------------------------
(* C14 as stated: with an explicit var_type outside integer, real and      *)
(* event, activate_probe registers the signal with that kind and returns a *)
(* callback when the writer knows the kind (it knows 'wire'), and the only *)
(* failure is a Configuration Error for a kind the writer does not know.   *)
WriterKinds == {"integer", "real", "event", "wire"}

C14_Original ==
    [][ (VcdActivation /\ IsSet(VcdHintsOf(last').var_type)
           /\ Val(VcdHintsOf(last').var_type) \notin
                 {"integer", "real", "event"}) =>
          IF Val(VcdHintsOf(last').var_type) \in WriterKinds
          THEN /\ last'.raised = "none"
               /\ IsSet(last'.ret)
               /\ Len(signals') = Len(signals) + 1
               /\ signals'[Len(signals')].var_type =
                     Val(VcdHintsOf(last').var_type)
          ELSE last'.raised = "ConfigurationError"
      ]_vars

---------------------------------------------------------------------------
(* every pattern configured for an enabled tracer compiles *)
PatternsCompile ==
    \A t \in TracerNames :
       ConfiguredOn(t) =>
          /\ ~AnyMalformed(Get(cfg[t].pats.include_pat, <<>>))
          /\ ~AnyMalformed(Get(cfg[t].pats.exclude_pat, <<>>))

(* C15 as stated: when the viewer is configured and spawning it fails      *)
(* during the signal tracer's open(), construction completes all the same, *)
(* with the waveform writer and the dump file open and the signal tracer   *)
(* usable.                                                                 *)
C15_Original ==
    (last.op = "init" /\ last.fault = "spawn"
        /\ ConfiguredOn("vcd") /\ cfg.gtkw.live /\ PatternsCompile) =>
       /\ last.raised = "none"
       /\ tm.state = "active"
       /\ sink["writer"].state = "open"
       /\ sink["dumpfile"].state = "open"
       /\ tr["vcd"].enabled /\ IsSet(tr["vcd"].include_re)

---------------------------------------------------------------------------
(* C19 as stated: when the construction of the trace manager has failed    *)
(* (the log file or the dump file cannot be created, a pattern does not    *)
(* compile after open() has run, the writer cannot be built, the viewer    *)
(* cannot be spawned), no sink opened during it is open: neither the log   *)
(* file, nor the dump file, nor the writer.                                *)
C19_Original ==
    tm.state = "failed" => \A s \in SinkNames : sink[s].state # "open"

---------------------------------------------------------------------------
(* C16: on every exit of the trace manager, with or without an exception   *)
(* in flight, the signal tracer leaves before the log tracer (the reverse  *)
(* of their construction); the signal tracer's writer is closed before its *)
(* dump file, both before the log tracer's turn, and the log file in the   *)
(* log tracer's turn; and once the manager has exited, no sink is open and *)
(* every sink that was opened has been closed exactly once.                *)
IsExitEvent(e) == e[1] = "exit"
Has(seq, e) == Count(seq, e) > 0

C16_ReverseShutdown ==
    /\ (last.op = "exit" /\ ~last.second) =>
          /\ SelectSeq(last.ev, IsExitEvent) =
                <<<<"exit", "vcd">>, <<"exit", "log">>>>
          /\ \A s \in SinksOf("vcd") :
                Has(last.ev, <<"close", s>>) =>
                   /\ Pos(last.ev, <<"exit", "vcd">>)
                         < Pos(last.ev, <<"close", s>>)
                   /\ Pos(last.ev, <<"close", s>>)
                         < Pos(last.ev, <<"exit", "log">>)
          /\ Has(last.ev, <<"close", "logfile">>) =>
                Pos(last.ev, <<"exit", "log">>)
                   < Pos(last.ev, <<"close", "logfile">>)
          /\ Has(last.ev, <<"close", "writer">>)
                <=> Has(last.ev, <<"close", "dumpfile">>)
          /\ Has(last.ev, <<"close", "writer">>) =>
                Pos(last.ev, <<"close", "writer">>)
                   < Pos(last.ev, <<"close", "dumpfile">>)
    /\ hist.exited =>
          \A s \in SinkNames :
             /\ sink[s].state # "open"
             /\ sink[s].state = "closed" => sink[s].closes = 1
    /\ \A s \in SinkNames : sink[s].closes <= 1

(* an exit with an exception in flight that shut down both tracers: the    *)
(* writer, the dump file and the log file were closed in that order *)
C16_Witness ==
    /\ last.op = "exit" /\ ~last.second /\ last.exc_in = "SimError"
    /\ Has(last.ev, <<"close", "writer">>)
    /\ Has(last.ev, <<"close", "logfile">>)
    /\ Pos(last.ev, <<"close", "dumpfile">>)
          < Pos(last.ev, <<"close", "logfile">>)
    /\ \A s \in SinkNames : sink[s].state = "closed"

---------------------------------------------------------------------------
(* C17: a callback returned by the log tracer's activate_probe carries the *)
(* level and value format of the log hint entry (PROBE and '{value}' when  *)
(* they are missing), the scope of the activation and the time unit of the *)
(* tracer; each call of it appends exactly one line to the output, after   *)
(* the lines of the earlier calls, whose time is the simulated time of the *)
(* call, whose level, time unit and scope are those of the callback, and   *)
(* whose message is the value rendered with the callback's format.         *)
LogHintsOf(l) == Get(Val(l.hints).log, NoLogHints)

C17_OneLinePerCall ==
    [][ /\ (last'.op = "activate_probe" /\ last'.t = "log"
               /\ IsSet(last'.ret)) =>
              LET f == Val(last'.ret) IN
              /\ f.kind = "log_probe"
              /\ f.scope = last'.scope
              /\ f.unit = <<"us">>
              /\ f.level = (IF IsSet(LogHintsOf(last').level)
                            THEN Val(LogHintsOf(last').level) ELSE "PROBE")
              /\ f.fmt = (IF IsSet(LogHintsOf(last').value_fmt)
                          THEN Val(LogHintsOf(last').value_fmt)
                          ELSE "{value}")
              /\ out' = out
        /\ (last'.op = "call" /\ last'.cbs[1].kind = "log_probe") =>
              LET f == last'.cbs[1] IN
              /\ last'.raised = "none"
              /\ Len(out') = Len(out) + 1
              /\ SubSeq(out', 1, Len(out)) = out
              /\ out'[Len(out')].ts = now
              /\ out'[Len(out')].level = f.level
              /\ out'[Len(out')].ts_unit = f.unit
              /\ out'[Len(out')].scope = f.scope
              /\ out'[Len(out')].message = <<f.fmt, Val(last'.arg)>>
              /\ out'[Len(out')].dest =
                    (IF IsSet(cfg.log.file) THEN "logfile" ELSE "stderr")
      ]_vars

(* a callback activated with an empty hint entry was called at time 0 and  *)
(* again at time 1: two PROBE lines, in that order, each with the time of  *)
(* its call *)
C17_Witness ==
    /\ last.op = "call" /\ last.cbs[1].kind = "log_probe"
    /\ last.cbs[1].level = "PROBE" /\ last.cbs[1].fmt = "{value}"
    /\ Len(out) = 2
    /\ out[1].ts = 0 /\ out[2].ts = 1
    /\ out[1].level = "PROBE" /\ out[2].level = "PROBE"
    /\ out[2].message = <<"{value}", IntV(5)>>

(* ---- C18: a failed kind inference is confined to its activation ---- *)

(* the step that has just been taken was an activation of the signal tracer *)
(* that failed with ValueError: directly, or inside auto_probe *)
FailedInference(l) ==
    /\ l.raised = "ValueError"
    /\ \/ l.op = "activate_probe" /\ l.t = "vcd"
       \/ l.op = "auto_probe" /\ l.acts["vcd"] = 1

Registered(scope) ==
    \E i \in 1..Len(signals) : SignalScope(signals[i]) = scope

(* C18: when the signal tracer's activate_probe fails with ValueError, no   *)
(* signal is registered and no callback is returned, the registered        *)
(* signals, the recorded changes, the sinks and the tracers are what they *)
(* were, and auto_probe attaches nothing; a signal-tracer activation that  *)
(* follows a failed one, of a target whose kind can be inferred and on a   *)
(* scope not yet registered, succeeds and registers exactly that scope     *)
C18_FailureConfined ==
    [][ /\ FailedInference(last') =>
              /\ signals' = signals
              /\ changes' = changes
              /\ sink' = sink
              /\ tr' = tr
              /\ out' = out
              /\ ~Has(last'.ev, <<"register", "var">>)
              /\ ~Has(last'.ev, <<"attach", "probe">>)
              /\ last'.attached = <<>>
              /\ last'.ret = None
              /\ last'.op = "activate_probe" => held' = held
        /\ ( /\ FailedInference(last)
             /\ last'.op = "activate_probe" /\ last'.t = "vcd"
             /\ IsSet(ResolveVarType(Val(last'.target),
                                     Get(Val(last'.hints).vcd, NoVcdHints)))
             /\ ~Registered(last'.scope) ) =>
              /\ last'.raised = "none"
              /\ IsSet(last'.ret)
              /\ Len(signals') = Len(signals) + 1
              /\ SubSeq(signals', 1, Len(signals)) = signals
              /\ SignalScope(signals'[Len(signals')]) = last'.scope
              /\ held' = held \o last'.ret
      ]_vars

(* auto_probe reached the signal tracer with a target of no known kind    *)
(* while a signal registered earlier was in place: the call failed, the   *)
(* signal is still the only one, and nothing was attached *)
C18_Witness ==
    /\ last.op = "auto_probe" /\ last.raised = "ValueError"
    /\ last.shape = "Other" /\ last.acts["vcd"] = 1
    /\ last.attached = <<>>
    /\ Len(signals) = 1

====
